---------------------------- MODULE Spec2Model ----------------------------
(***************************************************************************)
(* A model of crowbook's Book (src/lib/book.rs): the configuration loader  *)
(* set_from_config, add_chapter, get_cleaner, get_template, get_mapbuilder *)
(* and the render_all driver with render_html / render_tex writing to the  *)
(* output paths.  A str of the program is the sequence of its characters;  *)
(* the text functions of the Rust standard library that the code calls     *)
(* (trim, lines, splitn, parse, ...) are operators computing what those    *)
(* functions compute.                                                      *)
(***************************************************************************)
EXTENDS Integers, Sequences, FiniteSets, TLC

VARIABLES
    book,            \* the Book struct
    config,          \* the text of the configuration file handed to set_from_config
    op,              \* the Book method called last
    ret,             \* what that call returned
    adds,            \* number of direct add_chapter calls made so far
    disk,            \* output path -> what the file system holds there
    disk0,           \* output path -> what it held before render_all was called
    pc,              \* position inside render_all
    did_some_stuff,  \* render_all's local flag
    attempted,       \* the formats whose render_* was called, in call order
    succeeded,       \* the formats whose render_* returned Ok
    warned,          \* render_all printed its "generated no file" warning
    out,             \* value returned by get_template / get_mapbuilder
    resolver         \* the numbering resolver's running state

vars == <<book, config, op, ret, adds, disk, disk0, pc, did_some_stuff,
          attempted, succeeded, warned, out, resolver>>

-----------------------------------------------------------------------------
(* Bounds of the model *)

MaxConfigLines == 3
MaxChapters == 3
MaxDirectAdds == 1
MaxStrLen == 1
MaxResolveLen == 3

-----------------------------------------------------------------------------
(* Option<T>, Result<T> and Error *)

\* the value ()
Unit == <<>>

None == [some |-> FALSE, val |-> <<>>]
Some(v) == [some |-> TRUE, val |-> v]

\* kind and msg name the Error variant and its &'static str message; arg is
\* the String the variant carries
Ok(v) == [tag |-> "Ok", val |-> v, kind |-> "", msg |-> "", arg |-> <<>>]
Err(kind, msg, arg) == [tag |-> "Err", val |-> <<>>, kind |-> kind, msg |-> msg, arg |-> arg]
Panic(msg) == [tag |-> "Panic", val |-> <<>>, kind |-> "", msg |-> msg, arg |-> <<>>]
NoCall == [tag |-> "None", val |-> <<>>, kind |-> "", msg |-> "", arg |-> <<>>]

FileNotFound(file) == Err("FileNotFound", "", file)
ConfigParser(msg, arg) == Err("ConfigParser", msg, arg)
Render(msg) == Err("Render", msg, <<>>)

-----------------------------------------------------------------------------
(* enum Number *)

Hidden == [tag |-> "Hidden", n |-> 0]
Unnumbered == [tag |-> "Unnumbered", n |-> 0]
Default == [tag |-> "Default", n |-> 0]
Specified(n) == [tag |-> "Specified", n |-> n]

-----------------------------------------------------------------------------
(* str, char and the str functions the code calls *)

(* A char is a one-character TLA+ string when a TLA+ string can hold the
   character, and otherwise the name of its code point, "U+" followed by the
   hexadecimal digits of the code point ("U+202F").  A str is the sequence of
   its chars. *)

\* the str whose chars are those of the TLA+ string t
Str(t) == [i \in 1..Len(t) |-> SubSeq(t, i, i)]

I32Max == 2147483647

Digits == {"0", "1", "2", "3", "4", "5", "6", "7", "8", "9"}

DigitVal(c) ==
    CASE c = "0" -> 0 [] c = "1" -> 1 [] c = "2" -> 2 [] c = "3" -> 3
      [] c = "4" -> 4 [] c = "5" -> 5 [] c = "6" -> 6 [] c = "7" -> 7
      [] c = "8" -> 8 [] c = "9" -> 9

\* the char takes more than one byte in UTF-8: it is above U+007F
IsMultiByte(c) ==
    /\ Len(c) > 1
    /\ ~ ( /\ Len(c) = 6
           /\ SubSeq(c, 3, 4) = "00"
           /\ SubSeq(c, 5, 5) \in {"0", "1", "2", "3", "4", "5", "6", "7"} )

\* the chars with the Unicode property White_Space
WhiteSpace ==
    { "\t", "\n", "U+000B", "\f", "\r", " ", "U+0085", "U+00A0",
      "U+1680", "U+2000", "U+2001", "U+2002", "U+2003", "U+2004",
      "U+2005", "U+2006", "U+2007", "U+2008", "U+2009", "U+200A",
      "U+2028", "U+2029", "U+202F", "U+205F", "U+3000" }

\* char::is_whitespace
IsWhitespace(c) == c \in WhiteSpace

From(s, i) == SubSeq(s, i, Len(s))

starts_with(s, c) == s # <<>> /\ Head(s) = c

starts_with_digit(s) == s # <<>> /\ Head(s) \in Digits

RECURSIVE trim_left(_)
trim_left(s) ==
    IF s # <<>> /\ IsWhitespace(Head(s)) THEN trim_left(Tail(s)) ELSE s

RECURSIVE trim_right(_)
trim_right(s) ==
    IF s # <<>> /\ IsWhitespace(s[Len(s)])
    THEN trim_right(SubSeq(s, 1, Len(s) - 1))
    ELSE s

trim(s) == trim_right(trim_left(s))

\* index of the first char of s, at or after i, that is in set; 0 if none
RECURSIVE find(_, _, _)
find(s, i, set) ==
    IF i > Len(s) THEN 0
    ELSE IF s[i] \in set THEN i
    ELSE find(s, i + 1, set)

\* str::lines: split at "\n" (a "\r" before it belongs to the line ending);
\* no empty last line after a final line ending
RECURSIVE lines(_)
lines(s) ==
    IF s = <<>> THEN <<>>
    ELSE LET i == find(s, 1, {"\n"}) IN
         IF i = 0 THEN <<s>>
         ELSE LET l == SubSeq(s, 1, i - 1)
                  line == IF l # <<>> /\ l[Len(l)] = "\r"
                          THEN SubSeq(l, 1, Len(l) - 1) ELSE l
              IN <<line>> \o lines(From(s, i + 1))

\* str::splitn(2, pattern)
splitn2(s, set) ==
    LET i == find(s, 1, set) IN
    IF i = 0 THEN <<s>> ELSE <<SubSeq(s, 1, i - 1), From(s, i + 1)>>

\* str::split(c)
RECURSIVE split(_, _)
split(s, c) ==
    LET i == find(s, 1, {c}) IN
    IF i = 0 THEN <<s>> ELSE <<SubSeq(s, 1, i - 1)>> \o split(From(s, i + 1), c)

\* str::split_whitespace
RECURSIVE split_whitespace(_)
split_whitespace(s) ==
    LET t == trim_left(s) IN
    IF t = <<>> THEN <<>>
    ELSE LET i == find(t, 1, WhiteSpace) IN
         IF i = 0 THEN <<t>>
         ELSE <<SubSeq(t, 1, i - 1)>> \o split_whitespace(From(t, i + 1))

\* the digits of s as a number; -1 if s has a non-digit or the value
\* exceeds limit
RECURSIVE parse_digits(_, _, _)
parse_digits(s, acc, limit) ==
    IF s = <<>> THEN acc
    ELSE IF Head(s) \notin Digits THEN -1
    ELSE LET d == DigitVal(Head(s)) IN
         IF acc > (limit - d) \div 10 THEN -1
         ELSE parse_digits(Tail(s), acc * 10 + d, limit)

\* s without its leading zeros
RECURSIVE strip_zeros(_)
strip_zeros(s) == IF starts_with(s, "0") THEN strip_zeros(Tail(s)) ELSE s

\* str::parse::<i32>: an optional sign and at least one digit, in i32's range
\* (i32::MIN has no positive counterpart, so its digits are compared as text)
parse_i32(s) ==
    LET neg == starts_with(s, "-")
        body == IF starts_with(s, "-") \/ starts_with(s, "+") THEN Tail(s) ELSE s
        v == IF body = <<>> THEN -1 ELSE parse_digits(body, 0, I32Max)
    IN IF v = -1
       THEN IF neg /\ strip_zeros(body) = Str("2147483648")
            THEN Ok(-I32Max - 1)
            ELSE Err("ParseInt", "", s)
       ELSE Ok(IF neg THEN -v ELSE v)

\* str::parse::<bool>
parse_bool(s) ==
    IF s = Str("true") THEN Ok(TRUE)
    ELSE IF s = Str("false") THEN Ok(FALSE)
    ELSE Err("ParseBool", "", s)

\* s.to_lowercase().starts_with("fr"): to_lowercase lowers s char by char,
\* "f" is the lowercase of "f" and of "F", and the lowercase of no other char
\* starts with "f"; the same holds of "r"
lowercase_starts_with_fr(s) ==
    Len(s) >= 2 /\ s[1] \in {"f", "F"} /\ s[2] \in {"r", "R"}

-----------------------------------------------------------------------------
(* The files the file system holds *)

\* chapter sources that exist; every other path is missing
ChapterFiles == {Str("a.md"), Str("b.md")}

\* override resources that exist and are valid UTF-8
TemplateFiles == {Str("custom.css"), Str("custom.tpl")}

\* override resources that exist and are not valid UTF-8
BinaryFiles == {Str("binary.css")}

\* what reading the file at path gives
FileContent(path) == Str("content of ") \o path

-----------------------------------------------------------------------------
(* struct Book *)

\* Book::new
BookNew ==
    [ verbose |-> FALSE,
      numbering |-> TRUE,
      autoclean |-> TRUE,
      chapters |-> <<>>,
      lang |-> Str("en"),
      author |-> Str("Anonymous"),
      title |-> Str("Untitled"),
      description |-> None,
      subject |-> None,
      cover |-> None,
      nb_char |-> "U+202F",
      numbering_template |-> Str("{{number}}. {{title}}"),
      temp_dir |-> Str("."),
      output_epub |-> None,
      output_html |-> None,
      output_pdf |-> None,
      output_tex |-> None,
      output_odt |-> None,
      tex_command |-> Str("pdflatex"),
      epub_css |-> None,
      epub_template |-> None,
      epub_version |-> 2,
      html_template |-> None,
      html_css |-> None ]

\* the Cleaner choices: no cleaner, the no-op cleaner (), French::new(nb_char)
NoCleaner == [kind |-> "None", nb_char |-> ""]
NoOpCleaner == [kind |-> "NoOp", nb_char |-> ""]
French(c) == [kind |-> "French", nb_char |-> c]

\* Book::get_cleaner
get_cleaner(b) ==
    IF b.autoclean
    THEN IF lowercase_starts_with_fr(b.lang)
         THEN French(b.nb_char)
         ELSE NoOpCleaner
    ELSE NoCleaner

\* Parser::parse_file with the parser's cleaner: the tokens of a chapter are
\* those of its file cleaned by that cleaner; a missing file is FileNotFound
parse_file(file, cleaner) ==
    IF file \in ChapterFiles
    THEN Ok([file |-> file, cleaner |-> cleaner])
    ELSE FileNotFound(file)

\* the result of a &mut self method: the Book as the call leaves it, and
\* the value returned
Done(b, r) == [book |-> b, ret |-> r]

\* mutant of add_chapter: a chapter that cannot be parsed is added empty
add_chapter_placeholder(b, number, file) ==
    LET v == parse_file(file, get_cleaner(b)) IN
    IF v.tag # "Ok"
    THEN Done([b EXCEPT !.chapters =
                   Append(@, [number |-> number,
                              tokens |-> [file |-> <<>>, cleaner |-> get_cleaner(b)]])],
              Ok(Unit))
    ELSE Done([b EXCEPT !.chapters = Append(@, [number |-> number, tokens |-> v.val])],
              Ok(Unit))

\* Book::add_chapter
add_chapter(b, number, file) ==
    LET v == parse_file(file, get_cleaner(b)) IN
    IF v.tag # "Ok"
    THEN Done(b, v)
    ELSE Done([b EXCEPT !.chapters = Append(@, [number |-> number, tokens |-> v.val])],
              Ok(Unit))

\* set_from_config's get_char
get_char(s) ==
    LET words == split(trim(s), "'") IN
    IF Len(words) # 3 THEN ConfigParser("could not parse char", s)
    ELSE IF Len(words[2]) # 1 THEN ConfigParser("could not parse char", s)
    ELSE Ok(words[2][1])

\* set_from_config's get_filename; &s[1..] panics on the empty string and
\* when byte 1 is inside the first character
get_filename(s) ==
    IF s = <<>> THEN Panic("byte index 1 is out of bounds")
    ELSE IF IsMultiByte(Head(s)) THEN Panic("byte index 1 is not a char boundary")
    ELSE LET words == split_whitespace(Tail(s)) IN
         IF Len(words) > 1
         THEN ConfigParser("chapter filenames must not contain whitespace", s)
         ELSE IF Len(words) < 1
         THEN ConfigParser("no chapter name specified", s)
         ELSE Ok(words[1])

\* the branches of set_from_config for "-", "+" and "!" lines
add_marked(b, number, line) ==
    LET file == get_filename(line) IN
    IF file.tag # "Ok" THEN Done(b, file)
    ELSE add_chapter(b, number, file.val)

\* the branch of set_from_config for a line that starts with a digit
add_numbered(b, line) ==
    LET parts == splitn2(line, {".", ":", "+"}) IN
    IF Len(parts) # 2
    THEN Done(b, ConfigParser("ill-formatted line specifying chapter number", line))
    ELSE LET file == get_filename(parts[2])
             number == parse_i32(parts[1])
         IN IF file.tag # "Ok" THEN Done(b, file)
            ELSE IF number.tag # "Ok"
            THEN Done(b, ConfigParser("Error parsing integer", line))
            ELSE add_chapter(b, Specified(number.val), file.val)

\* a bool option: the Book with field set, or the "could not parse bool" error
set_bool(b, field, value, line) ==
    LET v == parse_bool(value) IN
    IF v.tag # "Ok" THEN Done(b, ConfigParser("could not parse bool", line))
    ELSE Done([b EXCEPT ![field] = v.val], Ok(Unit))

set_string(b, field, value) == Done([b EXCEPT ![field] = value], Ok(Unit))

set_some(b, field, value) == Done([b EXCEPT ![field] = Some(value)], Ok(Unit))

\* the branch of set_from_config for "option: value"
set_option(b, line) ==
    LET parts == splitn2(line, {":"}) IN
    IF Len(parts) # 2
    THEN Done(b, ConfigParser("option setting must be of the form option: value", line))
    ELSE LET option == trim(parts[1])
             value == trim(parts[2])
         IN CASE option \in {Str("nb-char"), Str("nb_char")} ->
                   LET c == get_char(value) IN
                   IF c.tag # "Ok" THEN Done(b, c)
                   ELSE Done([b EXCEPT !.nb_char = c.val], Ok(Unit))
              [] option \in {Str("numbering-template"), Str("numbering_template")} ->
                   set_string(b, "numbering_template", value)
              [] option = Str("verbose") -> set_bool(b, "verbose", value, line)
              [] option = Str("numbering") -> set_bool(b, "numbering", value, line)
              [] option = Str("autoclean") -> set_bool(b, "autoclean", value, line)
              [] option \in {Str("temp_dir"), Str("temp-dir")} -> set_string(b, "temp_dir", value)
              [] option \in {Str("output_epub"), Str("output-epub")} -> set_some(b, "output_epub", value)
              [] option \in {Str("output_html"), Str("output-html")} -> set_some(b, "output_html", value)
              [] option \in {Str("output_tex"), Str("output-tex")} -> set_some(b, "output_tex", value)
              [] option \in {Str("output_pdf"), Str("output-pdf")} -> set_some(b, "output_pdf", value)
              [] option \in {Str("output_odt"), Str("output-odt")} -> set_some(b, "output_odt", value)
              [] option \in {Str("tex_command"), Str("tex-command")} -> set_string(b, "tex_command", value)
              [] option = Str("author") -> set_string(b, "author", value)
              [] option = Str("title") -> set_string(b, "title", value)
              [] option = Str("cover") -> set_some(b, "cover", value)
              [] option = Str("lang") -> set_string(b, "lang", value)
              [] option = Str("description") -> set_some(b, "description", value)
              [] option = Str("subject") -> set_some(b, "subject", value)
              [] option \in {Str("epub_css"), Str("epub-css")} -> set_some(b, "epub_css", value)
              [] option \in {Str("epub_template"), Str("epub-template")} ->
                   set_some(b, "epub_template", value)
              [] option \in {Str("epub_version"), Str("epub-version")} ->
                   IF value = Str("2") THEN Done([b EXCEPT !.epub_version = 2], Ok(Unit))
                   ELSE IF value = Str("3") THEN Done([b EXCEPT !.epub_version = 3], Ok(Unit))
                   ELSE Done(b, ConfigParser("epub_version must either be 2 or 3", value))
              [] option \in {Str("html_template"), Str("html-template")} ->
                   set_some(b, "html_template", value)
              [] option \in {Str("html_css"), Str("html-css")} -> set_some(b, "html_css", value)
              [] OTHER -> Done(b, ConfigParser("unrecognized option", line))

\* mutant of config_line: a "-" line adds a chapter that follows the
\* book's numbering
config_line_minus_default(b, raw) ==
    LET line == trim(raw) IN
    IF line = <<>> \/ starts_with(line, "#") THEN Done(b, Ok(Unit))
    ELSE IF starts_with(line, "-") THEN add_marked(b, Default, line)
    ELSE IF starts_with(line, "+") THEN add_marked(b, Default, line)
    ELSE IF starts_with(line, "!") THEN add_marked(b, Hidden, line)
    ELSE IF starts_with_digit(line) THEN add_numbered(b, line)
    ELSE set_option(b, line)

\* the body of set_from_config's loop, for one line
config_line(b, raw) ==
    LET line == trim(raw) IN
    IF line = <<>> \/ starts_with(line, "#") THEN Done(b, Ok(Unit))
    ELSE IF starts_with(line, "-") THEN add_marked(b, Unnumbered, line)
    ELSE IF starts_with(line, "+") THEN add_marked(b, Default, line)
    ELSE IF starts_with(line, "!") THEN add_marked(b, Hidden, line)
    ELSE IF starts_with_digit(line) THEN add_numbered(b, line)
    ELSE set_option(b, line)

\* set_from_config's loop over the lines ls: try! returns at the first line
\* that fails, with the Book as the lines before it left it
RECURSIVE config_lines(_, _)
config_lines(b, ls) ==
    IF ls = <<>> THEN Done(b, Ok(Unit))
    ELSE LET r == config_line(b, Head(ls)) IN
         IF r.ret.tag # "Ok" THEN r
         ELSE config_lines(r.book, Tail(ls))

\* Book::set_from_config
set_from_config(b, s) == config_lines(b, lines(s))

-----------------------------------------------------------------------------
(* Book::get_template *)

TemplateNames == {"epub_css", "epub_template", "html_css", "html_template"}

\* mutant of get_template: the v2 package template whatever epub_version is
get_template_v2_only(b, template) ==
    IF template \notin TemplateNames
    THEN ConfigParser("invalid template", Str(template))
    ELSE LET option == b[template]
             fallback == CASE template = "epub_css" -> Str("epub::CSS")
                           [] template = "epub_template" -> Str("epub::TEMPLATE")
                           [] template = "html_css" -> Str("html::CSS")
                           [] template = "html_template" -> Str("html::TEMPLATE")
         IN IF option.some
            THEN IF option.val \notin TemplateFiles \cup BinaryFiles
                 THEN FileNotFound(option.val)
                 ELSE IF option.val \in BinaryFiles
                 THEN ConfigParser("file could not be read", option.val)
                 ELSE Ok(FileContent(option.val))
            ELSE Ok(fallback)

\* Book::get_template; the built-in templates are named by their constants
get_template(b, template) ==
    IF template \notin TemplateNames
    THEN ConfigParser("invalid template", Str(template))
    ELSE LET option == b[template]
             fallback == CASE template = "epub_css" -> Str("epub::CSS")
                           [] template = "epub_template" ->
                                IF b.epub_version = 3 THEN Str("epub3::TEMPLATE")
                                ELSE Str("epub::TEMPLATE")
                           [] template = "html_css" -> Str("html::CSS")
                           [] template = "html_template" -> Str("html::TEMPLATE")
         IN IF option.some
            THEN IF option.val \notin TemplateFiles \cup BinaryFiles
                 THEN FileNotFound(option.val)
                 ELSE IF option.val \in BinaryFiles
                 THEN ConfigParser("file could not be read", option.val)
                 ELSE Ok(FileContent(option.val))
            ELSE Ok(fallback)

-----------------------------------------------------------------------------
(* Book::get_mapbuilder *)

\* escape::escape_html
RECURSIVE escape_html(_)
escape_html(s) ==
    IF s = <<>> THEN <<>>
    ELSE LET c == Head(s) IN
         (CASE c = "<" -> Str("&lt;")
            [] c = ">" -> Str("&gt;")
            [] c = "&" -> Str("&amp;")
            [] c = "\"" -> Str("&quot;")
            [] OTHER -> <<c>>) \o escape_html(Tail(s))

\* escape::escape_tex
RECURSIVE escape_tex(_)
escape_tex(s) ==
    IF s = <<>> THEN <<>>
    ELSE LET c == Head(s) IN
         (CASE c = "\\" -> Str("\\textbackslash{}")
            [] c \in {"&", "%", "$", "#", "_", "{", "}"} -> <<"\\", c>>
            [] OTHER -> <<c>>) \o escape_tex(Tail(s))

\* the escaping function get_mapbuilder selects for a format
escape_for(format, s) ==
    CASE format = "none" -> s
      [] format = "html" -> escape_html(s)
      [] format = "tex" -> escape_tex(s)

\* Book::get_mapbuilder: the map, or the panic on an unknown format
get_mapbuilder(b, format) ==
    IF format \notin {"none", "html", "tex"}
    THEN Panic("get mapbuilder called with invalid escape format")
    ELSE Ok([author |-> escape_for(format, b.author),
             title |-> escape_for(format, b.title),
             lang |-> b.lang])

-----------------------------------------------------------------------------
(* The numbering resolver of the renderers *)

NoNumber == [some |-> FALSE, val |-> 0]
SomeNumber(n) == [some |-> TRUE, val |-> n]

\* mutant of resolve_chapter: an Unnumbered chapter consumes a number
resolve_chapter_unnumbered_counts(numbering, counter, number) ==
    CASE number.tag = "Hidden" ->
           [counter |-> counter, display |-> NoNumber, show_title |-> FALSE]
      [] number.tag = "Unnumbered" ->
           [counter |-> counter + 1, display |-> NoNumber, show_title |-> TRUE]
      [] number.tag \in {"Default", "Specified"} /\ ~numbering ->
           [counter |-> counter, display |-> NoNumber, show_title |-> TRUE]
      [] number.tag = "Default" /\ numbering ->
           [counter |-> counter + 1, display |-> SomeNumber(counter + 1),
            show_title |-> TRUE]
      [] number.tag = "Specified" /\ numbering ->
           [counter |-> number.n, display |-> SomeNumber(number.n), show_title |-> TRUE]

\* one chapter of the resolution: the counter after it, its display number
\* and whether its title is shown
resolve_chapter(numbering, counter, number) ==
    CASE number.tag = "Hidden" ->
           [counter |-> counter, display |-> NoNumber, show_title |-> FALSE]
      [] number.tag = "Unnumbered" ->
           [counter |-> counter, display |-> NoNumber, show_title |-> TRUE]
      [] number.tag \in {"Default", "Specified"} /\ ~numbering ->
           [counter |-> counter, display |-> NoNumber, show_title |-> TRUE]
      [] number.tag = "Default" /\ numbering ->
           [counter |-> counter + 1, display |-> SomeNumber(counter + 1),
            show_title |-> TRUE]
      [] number.tag = "Specified" /\ numbering ->
           [counter |-> number.n, display |-> SomeNumber(number.n), show_title |-> TRUE]

ResolverStart == [i |-> 1, counter |-> 0, out |-> <<>>]

-----------------------------------------------------------------------------
(* Book::render_all and the render_* methods *)

\* the order in which render_all goes through the formats
Formats == <<"epub", "html", "tex", "pdf", "odt">>

OutputField(fmt) == "output_" \o fmt

OutputPath(b, fmt) == b[OutputField(fmt)].val

\* what the file system holds at a path: nothing, the file that was there
\* before the run, or a file a render of the run made: empty, with part of
\* the artifact of format fmt, or with the whole of it
Absent == [kind |-> "absent", fmt |-> ""]
Old == [kind |-> "old", fmt |-> ""]
Empty == [kind |-> "empty", fmt |-> ""]
Partial(fmt) == [kind |-> "partial", fmt |-> fmt]
Complete(fmt) == [kind |-> "complete", fmt |-> fmt]

\* render_all's chain of "if self.output_x.is_some()": the first format, from
\* the i-th on, whose block is entered; "end" when there is none
RECURSIVE first_configured(_, _)
first_configured(b, i) ==
    IF i > Len(Formats) THEN "end"
    ELSE IF b[OutputField(Formats[i])].some THEN Formats[i]
    ELSE first_configured(b, i + 1)

\* the error a renderer's render_book / render_pdf returned
RendererError(fmt) == Render("error returned by the " \o fmt \o " renderer")

\* the artifact the epub, pdf or odt renderer leaves at the format's output
\* path when it returns Ok
renderer_output(d, b, fmt) == [d EXCEPT ![OutputPath(b, fmt)] = Complete(fmt)]

FormatTitle(fmt) == IF fmt = "html" THEN "HTML" ELSE "LaTeX"

\* the panic of println! when standard output cannot be written
PrintPanic == Panic("failed printing to stdout")

Return(r) == pc' = "returned" /\ ret' = r

\* render_all does not return: the panic unwinds through it
Unwind(r) == pc' = "panicked" /\ ret' = r

\* the call of render_all, up to the first block it enters
RenderAllCall ==
    /\ pc = "idle"
    /\ ret.tag # "Panic"
    /\ pc' = first_configured(book, 1)
    /\ op' = "render_all"
    /\ ret' = NoCall
    /\ did_some_stuff' = FALSE
    /\ attempted' = <<>>
    /\ succeeded' = {}
    /\ warned' = FALSE
    /\ disk0' = disk
    /\ UNCHANGED <<book, config, adds, disk, out, resolver>>

\* render_epub, render_pdf, render_odt: the verbose println!, the renderer,
\* which builds the artifact at the book's output path or fails, and the
\* println! calls that follow its success
ContainerStep(fmt, i) ==
    /\ pc = fmt
    /\ did_some_stuff' = TRUE
    /\ attempted' = Append(attempted, fmt)
    /\ \/ /\ book.verbose
          /\ Unwind(PrintPanic)
          /\ UNCHANGED <<disk, succeeded>>
       \/ /\ Return(RendererError(fmt))
          /\ UNCHANGED <<disk, succeeded>>
       \/ /\ disk' = renderer_output(disk, book, fmt)
          /\ \/ /\ succeeded' = succeeded \cup {fmt}
                /\ pc' = first_configured(book, i + 1)
                /\ UNCHANGED ret
             \/ /\ Unwind(PrintPanic)
                /\ UNCHANGED succeeded
    /\ UNCHANGED <<book, config, op, adds, disk0, warned, out, resolver>>

\* render_html, render_tex up to the renderer's render_book: the verbose
\* println! and the renderer
RenderBookStep(fmt) ==
    /\ pc = fmt
    /\ did_some_stuff' = TRUE
    /\ attempted' = Append(attempted, fmt)
    /\ \/ book.verbose /\ Unwind(PrintPanic)
       \/ Return(RendererError(fmt))
       \/ pc' = fmt \o "_create" /\ UNCHANGED ret
    /\ UNCHANGED <<book, config, op, adds, disk, disk0, succeeded, warned, out, resolver>>

\* mutant of CreateStep: a failure removes what the run wrote before
CreateStep_rollback(fmt) ==
    /\ pc = fmt \o "_create"
    /\ \/ /\ disk' = [disk EXCEPT ![OutputPath(book, fmt)] = Empty]
          /\ pc' = fmt \o "_write"
          /\ UNCHANGED ret
       \/ /\ Return(Render("could not create " \o FormatTitle(fmt) \o " file"))
          /\ disk' = disk0
    /\ UNCHANGED <<book, config, op, adds, disk0, did_some_stuff, attempted,
                   succeeded, warned, out, resolver>>

\* File::create(file): the file exists and is empty, or the error
CreateStep(fmt) ==
    /\ pc = fmt \o "_create"
    /\ \/ /\ disk' = [disk EXCEPT ![OutputPath(book, fmt)] = Empty]
          /\ pc' = fmt \o "_write"
          /\ UNCHANGED ret
       \/ /\ Return(Render("could not create " \o FormatTitle(fmt) \o " file"))
          /\ UNCHANGED disk
    /\ UNCHANGED <<book, config, op, adds, disk0, did_some_stuff, attempted,
                   succeeded, warned, out, resolver>>

\* f.write_all(result) and the println! after it: the whole buffer is in the
\* file and the message is printed or println! panics, or the write failed
\* with none or some of the buffer written
WriteStep(fmt, i) ==
    /\ pc = fmt \o "_write"
    /\ \/ /\ disk' = [disk EXCEPT ![OutputPath(book, fmt)] = Complete(fmt)]
          /\ \/ /\ succeeded' = succeeded \cup {fmt}
                /\ pc' = first_configured(book, i + 1)
                /\ UNCHANGED ret
             \/ /\ Unwind(PrintPanic)
                /\ UNCHANGED succeeded
       \/ /\ \E c \in {Empty, Partial(fmt)} :
                disk' = [disk EXCEPT ![OutputPath(book, fmt)] = c]
          /\ Return(Render("problem when writing to " \o FormatTitle(fmt) \o " file"))
          /\ UNCHANGED succeeded
    /\ UNCHANGED <<book, config, op, adds, disk0, did_some_stuff, attempted,
                   warned, out, resolver>>

render_epub == ContainerStep("epub", 1)
render_html == RenderBookStep("html")
render_html_create == CreateStep("html")
render_html_write == WriteStep("html", 2)
render_tex == RenderBookStep("tex")
render_tex_create == CreateStep("tex")
render_tex_write == WriteStep("tex", 3)
render_pdf == ContainerStep("pdf", 4)
render_odt == ContainerStep("odt", 5)

\* the end of render_all: when nothing was done the warning is printed, or
\* its println! panics; Ok(())
RenderAllEnd ==
    /\ pc = "end"
    /\ \/ /\ did_some_stuff
          /\ warned' = FALSE
          /\ Return(Ok(Unit))
       \/ /\ ~did_some_stuff
          /\ warned' = TRUE
          /\ Return(Ok(Unit))
       \/ /\ ~did_some_stuff
          /\ warned' = FALSE
          /\ Unwind(PrintPanic)
    /\ UNCHANGED <<book, config, op, adds, disk, disk0, did_some_stuff, attempted,
                   succeeded, out, resolver>>

RenderAll ==
    \/ RenderAllCall
    \/ render_epub
    \/ render_html
    \/ render_html_create
    \/ render_html_write
    \/ render_tex
    \/ render_tex_create
    \/ render_tex_write
    \/ render_pdf
    \/ render_odt
    \/ RenderAllEnd

-----------------------------------------------------------------------------
(* Calls of the other methods *)

\* a &mut self method cannot be called while render_all borrows the Book; the
\* model follows a Book up to its render_all, and no call follows a panic
Callable == pc = "idle" /\ ret.tag # "Panic"

\* book.set_from_config(config)
SetFromConfig ==
    /\ Callable
    /\ LET r == set_from_config(book, config) IN
       /\ Len(r.book.chapters) <= MaxChapters
       /\ book' = r.book
       /\ ret' = r.ret
    /\ op' = "set_from_config"
    /\ UNCHANGED <<config, adds, disk, disk0, pc, did_some_stuff, attempted,
                   succeeded, warned, out, resolver>>

AddNumbers == {Specified(2)}
AddFiles == {Str("a.md"), Str("m.md")}

\* book.add_chapter(number, file)
AddChapter ==
    /\ Callable
    /\ adds < MaxDirectAdds
    /\ Len(book.chapters) < MaxChapters
    /\ \E number \in AddNumbers, file \in AddFiles :
         LET r == add_chapter(book, number, file) IN
         /\ book' = r.book
         /\ ret' = r.ret
    /\ op' = "add_chapter"
    /\ adds' = adds + 1
    /\ UNCHANGED <<config, disk, disk0, pc, did_some_stuff, attempted,
                   succeeded, warned, out, resolver>>

\* book.get_template(template)
GetTemplate ==
    /\ \E template \in TemplateNames \cup {"odt_template"} :
         out' = [arg |-> template, ret |-> get_template(book, template)]
    /\ op' = "get_template"
    /\ UNCHANGED <<book, config, ret, adds, disk, disk0, pc, did_some_stuff,
                   attempted, succeeded, warned, resolver>>

\* book.get_mapbuilder(format)
GetMapbuilder ==
    /\ \E format \in {"none", "html", "tex", "odt"} :
         out' = [arg |-> format, ret |-> get_mapbuilder(book, format)]
    /\ op' = "get_mapbuilder"
    /\ UNCHANGED <<book, config, ret, adds, disk, disk0, pc, did_some_stuff,
                   attempted, succeeded, warned, resolver>>

\* the resolver takes the next chapter of the book
ResolveStep ==
    /\ resolver.i <= Len(book.chapters)
    /\ LET r == resolve_chapter(book.numbering, resolver.counter,
                                book.chapters[resolver.i].number)
       IN resolver' = [i |-> resolver.i + 1,
                       counter |-> r.counter,
                       out |-> Append(resolver.out,
                                      [display |-> r.display, show_title |-> r.show_title])]
    /\ op' = "resolve"
    /\ UNCHANGED <<book, config, ret, adds, disk, disk0, pc, did_some_stuff,
                   attempted, succeeded, warned, out>>

-----------------------------------------------------------------------------
(* Inputs *)

\* the text whose lines are ls
RECURSIVE join(_)
join(ls) ==
    IF Len(ls) = 0 THEN <<>>
    ELSE IF Len(ls) = 1 THEN ls[1]
    ELSE ls[1] \o <<"\n">> \o join(Tail(ls))

SeqsUpTo(S, n) == UNION {[1..k -> S] : k \in 0..n}

SampleLines ==
    { Str("+ a.md"), Str("- a.md"), Str("! b.md"), Str("5. b.md"), Str("+ m.md"),
      Str("lang: fr") }

FormatSet == {Formats[i] : i \in 1..Len(Formats)}

\* the output path of a format: unset, a path of its own, or one path that
\* every format so configured shares
PathChoices == {"unset", "own", "shared"}

OwnPath(fmt) == Str("book." \o fmt)

SharedPath == Str("book.out")

OutputPaths == {OwnPath(f) : f \in FormatSet} \cup {SharedPath}

\* the "output_x: path" lines of the formats from the i-th on, for the
\* choice c of each format's path
RECURSIVE output_lines(_, _)
output_lines(c, i) ==
    IF i > Len(Formats) THEN <<>>
    ELSE (IF c[Formats[i]] = "unset" THEN <<>>
          ELSE <<Str(OutputField(Formats[i]) \o ": ")
                   \o (IF c[Formats[i]] = "own" THEN OwnPath(Formats[i]) ELSE SharedPath)>>)
         \o output_lines(c, i + 1)

OutputConfig(c) == join(output_lines(c, 1))

AllOwn == [f \in FormatSet |-> "own"]

ExtraConfigs ==
    { OutputConfig(AllOwn) \o Str("\n+ a.md"),
      Str("verbose: true\n") \o OutputConfig(AllOwn),
      Str("# comment\n\n  + a.md  \r\n12:\tb.md\n"),
      Str("+ a.md\n7.a.md\n- b.md"),
      Str("+ a.md\n7.\n- b.md"),
      Str("3 a.md"),
      Str("5x. a.md"),
      Str("99999999999. a.md"),
      Str("+ a.md b.md"),
      Str("title: My <book>\nauthor: A & B\nlang: FR_be\n+ a.md\nnumbering: false"),
      Str("autoclean: no"),
      Str("+ a.md\nautoclean: false\n+ b.md"),
      Str("lang: fr\n+ a.md\nnb-char: '~'\n+ a.md"),
      Str("nb_char: '~~'"),
      Str("lang: fr\n+ a.md\nnb-char: ' '\n+ a.md"),
      Str("nb-char: '") \o <<"U+00A0">> \o Str("'\nlang: Fr\n+ <U+ b>"),
      Str("\f+ a.md\n+") \o <<"U+00A0">> \o Str("b.md") \o <<"U+2003">>
          \o Str("\n-") \o <<"U+000B">> \o Str("a.md"),
      Str("+ a.md\n5.") \o <<"U+202F">> \o Str("a.md\n+ b.md"),
      Str("epub_version: 3\nepub_css: custom.css\nhtml_template: missing.tpl"),
      Str("bogus") }

ConfigInputs == {join(ls) : ls \in SeqsUpTo(SampleLines, MaxConfigLines)} \cup ExtraConfigs

InitIdle ==
    /\ op = "new"
    /\ ret = NoCall
    /\ adds = 0
    /\ pc = "idle"
    /\ did_some_stuff = FALSE
    /\ attempted = <<>>
    /\ succeeded = {}
    /\ warned = FALSE
    /\ out = NoCall
    /\ resolver = ResolverStart

-----------------------------------------------------------------------------
(* Loading a configuration into a new Book, adding chapters, rendering *)

Init ==
    /\ book = BookNew
    /\ config \in ConfigInputs
    /\ disk = [p \in OutputPaths |-> Absent]
    /\ disk0 = disk
    /\ InitIdle

Next == SetFromConfig \/ AddChapter \/ RenderAll

Spec == Init /\ [][Next]_vars

-----------------------------------------------------------------------------
(* render_all on a Book with any output paths, verbose or not, over any files *)

\* the files at the output paths before the run
DiskInits ==
    { [p \in OutputPaths |-> IF p = SharedPath THEN a ELSE b] : a, b \in {Absent, Old} }

InitRender ==
    /\ \E c \in [FormatSet -> PathChoices], v \in BOOLEAN :
         LET text == (IF v THEN Str("verbose: true\n") ELSE <<>>) \o OutputConfig(c) IN
         /\ config = text
         /\ book = set_from_config(BookNew, text).book
    /\ disk \in DiskInits
    /\ disk0 = disk
    /\ InitIdle

NextRender == RenderAll

SpecRender == InitRender /\ [][NextRender]_vars

-----------------------------------------------------------------------------
(* get_template on a Book with any overrides *)

Overrides ==
    {None, Some(Str("custom.css")), Some(Str("missing.css")), Some(Str("binary.css"))}

InitTemplate ==
    /\ \E css \in Overrides, tpl \in Overrides, hcss \in Overrides, htpl \in Overrides,
          v \in {2, 3} :
         book = [BookNew EXCEPT !.epub_css = css, !.epub_template = tpl,
                                !.html_css = hcss, !.html_template = htpl,
                                !.epub_version = v]
    /\ config = <<>>
    /\ disk = [p \in OutputPaths |-> Absent]
    /\ disk0 = disk
    /\ InitIdle

NextTemplate == GetTemplate

SpecTemplate == InitTemplate /\ [][NextTemplate]_vars

-----------------------------------------------------------------------------
(* get_mapbuilder on a Book with any metadata *)

MetaChars == {"a", "<", "&", "%", "\\"}

MetaStrings == SeqsUpTo(MetaChars, MaxStrLen)

InitMap ==
    /\ \E author \in MetaStrings, title \in MetaStrings, lang \in MetaStrings :
         book = [BookNew EXCEPT !.author = author, !.title = title, !.lang = lang]
    /\ config = <<>>
    /\ disk = [p \in OutputPaths |-> Absent]
    /\ disk0 = disk
    /\ InitIdle

NextMap == GetMapbuilder

SpecMap == InitMap /\ [][NextMap]_vars

-----------------------------------------------------------------------------
(* Numbering resolution of any chapter list *)

NumberTags == {Hidden, Unnumbered, Default, Specified(2), Specified(5)}

ExampleNumbers == <<Default, Default, Specified(5), Default, Unnumbered, Hidden>>

ChaptersOf(numbers) ==
    [i \in 1..Len(numbers) |->
        [number |-> numbers[i], tokens |-> [file |-> Str("a.md"), cleaner |-> NoOpCleaner]]]

InitResolve ==
    /\ \E numbers \in SeqsUpTo(NumberTags, MaxResolveLen) \cup {ExampleNumbers},
          numbering \in BOOLEAN :
         book = [BookNew EXCEPT !.chapters = ChaptersOf(numbers),
                                !.numbering = numbering]
    /\ config = <<>>
    /\ disk = [p \in OutputPaths |-> Absent]
    /\ disk0 = disk
    /\ InitIdle

NextResolve == ResolveStep

SpecResolve == InitResolve /\ [][NextResolve]_vars

-----------------------------------------------------------------------------
(* Properties of render_all, checked under SpecRender *)

IsPrefix(a, b) == Len(a) <= Len(b) /\ SubSeq(b, 1, Len(a)) = a

IsConfigured(f) == book[OutputField(f)].some

\* the formats whose output path is set, in render_all's order
ConfiguredFormats == SelectSeq(Formats, IsConfigured)

ConfiguredSet == {f \in FormatSet : IsConfigured(f)}

ConfiguredPaths == {OutputPath(book, f) : f \in ConfiguredSet}

Returned == pc = "returned"

\* render_all is over: it returned or it panicked
Ended == pc \in {"returned", "panicked"}

\* C1: when render_all returns Ok, the formats whose render was called are
\* exactly those with an output path set, each once and in the fixed order;
\* each configured path holds the artifact of a format configured with it and
\* no other path was written.  With no output path set render_all calls no
\* render, writes nothing, warns and returns Ok.
C1_RendersExactlyConfigured ==
    /\ (Returned /\ ret.tag = "Ok") =>
          /\ attempted = ConfiguredFormats
          /\ succeeded = ConfiguredSet
          /\ \A p \in OutputPaths :
                IF p \in ConfiguredPaths
                THEN \E f \in ConfiguredSet :
                        OutputPath(book, f) = p /\ disk[p] = Complete(f)
                ELSE disk[p] = disk0[p]
          /\ warned <=> (ConfiguredFormats = <<>>)
    /\ (Ended /\ ConfiguredFormats = <<>>) =>
          /\ ret = Ok(Unit)
          /\ warned
          /\ attempted = <<>>
          /\ disk = disk0

\* the errors the render of format f can return
ErrorsOf(f) ==
    {RendererError(f)} \cup
    (IF f \in {"html", "tex"}
     THEN {Render("could not create " \o FormatTitle(f) \o " file"),
           Render("problem when writing to " \o FormatTitle(f) \o " file")}
     ELSE {})

\* the render called last did not succeed
LastFailed == attempted # <<>> /\ attempted[Len(attempted)] \notin succeeded

\* C2: render_all aborts at the first failure, whichever format fails: the
\* renders called are a prefix of the configured formats in the fixed order,
\* all but the last of them succeeded, a run that ends at a render that did
\* not succeed returns the error of that render (so no later format is
\* attempted), and Ok is returned only when every render called succeeded.
C2_AbortsAtFirstFailure ==
    /\ IsPrefix(attempted, ConfiguredFormats)
    /\ \A i \in 1..(Len(attempted) - 1) : attempted[i] \in succeeded
    /\ (Ended /\ LastFailed) =>
          /\ Returned
          /\ ret.tag = "Err"
          /\ ret \in ErrorsOf(attempted[Len(attempted)])
    /\ (Returned /\ ret.tag = "Ok") =>
          \A i \in 1..Len(attempted) : attempted[i] \in succeeded

\* C3: the output path of html and of tex holds, in every state, what it held
\* before render_all was called or a complete artifact.
C3_NoPartialOutput ==
    \A f \in {"html", "tex"} :
        IsConfigured(f) =>
            \/ disk[OutputPath(book, f)] = disk0[OutputPath(book, f)]
            \/ disk[OutputPath(book, f)].kind = "complete"

RECURSIVE PositionIn(_, _)
PositionIn(f, i) ==
    IF i > Len(attempted) THEN 0
    ELSE IF attempted[i] = f THEN i
    ELSE PositionIn(f, i + 1)

\* a render called after that of f has the output path of f
PathReused(f) ==
    \E k \in (PositionIn(f, 1) + 1)..Len(attempted) :
        OutputPath(book, attempted[k]) = OutputPath(book, f)

-----------------------------------------------------------------------------
(* Properties of set_from_config and add_chapter, checked under Spec *)

\* the trimmed lines of s that are chapter directives
IsDirective(l) ==
    trim(l) # <<>> /\ Head(trim(l)) \in {"+", "-", "!"} \cup Digits

DirectiveLines(s) == SelectSeq(lines(s), IsDirective)

\* the number written by the leading digits of l
RECURSIVE LeadingInt(_, _)
LeadingInt(l, acc) ==
    IF l = <<>> \/ Head(l) \notin Digits THEN acc
    ELSE LeadingInt(Tail(l), 10 * acc + DigitVal(Head(l)))

\* the tag a directive line's leading marker stands for
MarkerTag(l) ==
    LET c == Head(trim(l)) IN
    CASE c = "+" -> Default
      [] c = "-" -> Unnumbered
      [] c = "!" -> Hidden
      [] OTHER -> Specified(LeadingInt(trim(l), 0))

ExpectedTags(s) ==
    [i \in 1..Len(DirectiveLines(s)) |-> MarkerTag(DirectiveLines(s)[i])]

Added == SubSeq(book'.chapters, Len(book.chapters) + 1, Len(book'.chapters))

\* C4: no step changes an entry of chapters or its position, and a
\* set_from_config that returns Ok has appended one entry per chapter
\* directive line, in line order, tagged as the line's marker says.
C4_ChaptersAppendOnly ==
    [][ /\ IsPrefix(book.chapters, book'.chapters)
        /\ (op' = "set_from_config" /\ ret'.tag = "Ok") =>
              [i \in 1..Len(Added) |-> Added[i].number] = ExpectedTags(config)
      ]_vars

C4_Witness ==
    /\ op = "set_from_config"
    /\ ret.tag = "Ok"
    /\ adds = 1
    /\ Len(book.chapters) = 3
    /\ book.chapters[1].number = Specified(2)
    /\ book.chapters[2].number = Unnumbered
    /\ book.chapters[3].number = Specified(5)

\* C5: add_chapter on a missing file returns FileNotFound and leaves the Book
\* as it was; a set_from_config that returns FileNotFound names a missing
\* file, has added no chapter without a file, and leaves the Book as the lines
\* before the failing directive left it.
C5_MissingChapterFile ==
    [][ /\ \A number \in AddNumbers \cup {Hidden}, file \in AddFiles \ ChapterFiles :
              add_chapter(book, number, file) = Done(book, FileNotFound(file))
        /\ (op' = "set_from_config" /\ ret'.kind = "FileNotFound") =>
              /\ ret'.arg \notin ChapterFiles
              /\ \A i \in 1..Len(book'.chapters) :
                    book'.chapters[i].tokens.file \in ChapterFiles
              /\ \E k \in 1..Len(lines(config)) :
                    /\ IsDirective(lines(config)[k])
                    /\ config_lines(book, SubSeq(lines(config), 1, k - 1))
                          = Done(book', Ok(Unit))
      ]_vars

C5_Witness ==
    /\ op = "set_from_config"
    /\ ret = FileNotFound(Str("m.md"))
    /\ config = Str("+ a.md\n+ m.md\n- a.md")
    /\ Len(book.chapters) = 1

\* C10: all the chapters of a Book that were added through set_from_config
\* were parsed with the same cleaner.
C10_OneCleanerPerBook ==
    adds = 0 =>
        \A i, j \in 1..Len(book.chapters) :
            book.chapters[i].tokens.cleaner = book.chapters[j].tokens.cleaner

-----------------------------------------------------------------------------
(* Properties of get_template, checked under SpecTemplate *)

\* the built-in default of a template name
DefaultTemplate(name) ==
    CASE name = "epub_css" -> Str("epub::CSS")
      [] name = "html_css" -> Str("html::CSS")
      [] name = "html_template" -> Str("html::TEMPLATE")
      [] name = "epub_template" /\ book.epub_version = 3 -> Str("epub3::TEMPLATE")
      [] name = "epub_template" /\ book.epub_version # 3 -> Str("epub::TEMPLATE")

TemplateAsked == op = "get_template" /\ out.arg \in TemplateNames

OverrideMissing(name) ==
    book[name].some /\ book[name].val \notin TemplateFiles \cup BinaryFiles

\* C6 as stated: with no override configured, and also with a configured
\* override whose file is missing, get_template returns the built-in default.
C6_MissingOverrideFallsBack ==
    (TemplateAsked /\ (~book[out.arg].some \/ OverrideMissing(out.arg))) =>
        out.ret = Ok(DefaultTemplate(out.arg))

\* C6 as amended: with no override configured get_template returns the
\* built-in default verbatim (the v3 package template iff epub_version is 3);
\* with a configured override whose file is missing it returns FileNotFound
\* of that path.
C6_DefaultOnlyWhenUnset ==
    /\ (TemplateAsked /\ ~book[out.arg].some) =>
          out.ret = Ok(DefaultTemplate(out.arg))
    /\ (TemplateAsked /\ OverrideMissing(out.arg)) =>
          out.ret = FileNotFound(book[out.arg].val)

C6_Witness ==
    /\ TemplateAsked
    /\ out.arg = "epub_template"
    /\ book.epub_version = 3
    /\ book.epub_template = None
    /\ book.epub_css = Some(Str("missing.css"))
    /\ out.ret = Ok(Str("epub3::TEMPLATE"))

-----------------------------------------------------------------------------
(* Properties of get_mapbuilder, checked under SpecMap *)

\* C8: for the formats html and tex, the map holds author, title and lang
\* each escaped with the format's escaping function.
C8_MetadataEscaped ==
    (op = "get_mapbuilder" /\ out.arg \in {"html", "tex"}) =>
        /\ out.ret.tag = "Ok"
        /\ out.ret.val.author = escape_for(out.arg, book.author)
        /\ out.ret.val.title = escape_for(out.arg, book.title)
        /\ out.ret.val.lang = escape_for(out.arg, book.lang)

-----------------------------------------------------------------------------
(* Properties of the numbering resolution, checked under SpecResolve *)

NumberOf(i) == book.chapters[i].number

\* the last chapter before i that is Specified; 0 if there is none
RECURSIVE LastSpecified(_)
LastSpecified(i) ==
    IF i <= 1 THEN 0
    ELSE IF NumberOf(i - 1).tag = "Specified" THEN i - 1
    ELSE LastSpecified(i - 1)

\* what chapter i displays, by its tag and the chapters before it
ExpectedDisplay(i) ==
    LET j == LastSpecified(i)
        base == IF j = 0 THEN 0 ELSE NumberOf(j).n
        defaults == Cardinality({k \in (j + 1)..i : NumberOf(k).tag = "Default"})
    IN CASE NumberOf(i).tag = "Hidden" -> [display |-> NoNumber, show_title |-> FALSE]
         [] NumberOf(i).tag = "Unnumbered" -> [display |-> NoNumber, show_title |-> TRUE]
         [] NumberOf(i).tag = "Specified" ->
              [display |-> IF book.numbering THEN SomeNumber(NumberOf(i).n) ELSE NoNumber,
               show_title |-> TRUE]
         [] NumberOf(i).tag = "Default" ->
              [display |-> IF book.numbering THEN SomeNumber(base + defaults) ELSE NoNumber,
               show_title |-> TRUE]

\* C9: every resolved chapter displays what its tag and the running counter
\* give (Default continues from the last Specified, Hidden and Unnumbered leave
\* the counter alone); the example list yields 1, 2, 5, 6, none, none with the
\* title of all but the Hidden one shown; with numbering off no chapter has a
\* number and only Hidden ones hide their title.
C9_NumberingResolution ==
    /\ \A i \in 1..Len(resolver.out) : resolver.out[i] = ExpectedDisplay(i)
    /\ ( /\ book.numbering
         /\ Len(resolver.out) = Len(ExampleNumbers)
         /\ [i \in 1..Len(book.chapters) |-> NumberOf(i)] = ExampleNumbers ) =>
          /\ [i \in 1..6 |-> resolver.out[i].display] =
                <<SomeNumber(1), SomeNumber(2), SomeNumber(5), SomeNumber(6),
                  NoNumber, NoNumber>>
          /\ [i \in 1..6 |-> resolver.out[i].show_title] =
                <<TRUE, TRUE, TRUE, TRUE, TRUE, FALSE>>
    /\ ~book.numbering =>
          \A i \in 1..Len(resolver.out) :
              /\ resolver.out[i].display = NoNumber
              /\ resolver.out[i].show_title = (NumberOf(i).tag # "Hidden")

C9_Witness ==
    /\ book.numbering
    /\ [i \in 1..Len(book.chapters) |-> NumberOf(i)] = ExampleNumbers
    /\ Len(resolver.out) = 6
    /\ resolver.out[4].display = SomeNumber(6)
    /\ resolver.out[6].show_title = FALSE

=============================================================================
